---- MODULE Spec2Model ----
(***************************************************************************)
(* Supplier onboarding: the situation deriver (post_save signal handlers   *)
(* over Supplier, ResponsibilityMatrix and SupplierAttachment) and the     *)
(* sequential approval workflow (ApprovalFlow / StepApproval).             *)
(***************************************************************************)
EXTENDS Integers, Sequences, FiniteSets, TLC

VARIABLES
    suppliers,              \* supplier table: supplier id -> row
    attachments,            \* supplier_attachment table: set of rows
    responsibility_matrix,  \* responsibility_matrix table: supplier id -> row
    situations,             \* supplier_situation rows per supplier, in created_at order
    approval_steps,         \* approval_step catalogue: step id -> order
    approval_flows,         \* approval_flow table: set of rows
    step_approvals,         \* step_approval table: set of rows
    approvers,              \* approver table: set of rows
    next_id,                \* next primary key handed out for approval_flow rows
    requests,               \* in-flight start-flow requests: request id -> local state
    last,                   \* the write request that was served last
    response                \* the response to the workflow request served last

vars == <<suppliers, attachments, responsibility_matrix, situations,
          approval_steps, approval_flows, step_approvals, approvers,
          next_id, requests, last, response>>

situation_vars == <<suppliers, attachments, responsibility_matrix, situations>>
workflow_vars == <<approval_steps, approval_flows, step_approvals, approvers,
                   next_id, requests, response>>

NoneVal == "None"
\* a nullable reference to a record: <<>> when unset, <<row>> when set
Unset == <<>>
Ref(row) == <<row>>
\* table rows keyed by primary key
Insert(tbl, k, row) == (k :> row) @@ tbl
Remove(tbl, k) == [x \in DOMAIN tbl \ {k} |-> tbl[x]]

(***************************************************************************)
(* Catalogues and input domains                                            *)
(***************************************************************************)
SupplierIds == {"s1", "s2"}
\* the supplier whose registration, matrix and row are edited by the requests
EditedSuppliers == {"s1"}
RiskLevels == {"r1", "r2"}
AttachmentTypes == {"t1", "t2"}
\* risk level of each attachment type (lookup attachment_type__risk_level)
TypeRisk == [t \in AttachmentTypes |-> IF t = "t1" THEN "r1" ELSE "r2"]

PENDENCIA_CADASTRO == 1
PENDENCIA_DOCUMENTACAO == 2
PENDENCIA_MATRIZ_RESPONSABILIDADE == 3
PENDENCIA_AVALIACAO == 4

\* rows of DomSupplierSituation: ATIVO, and PENDENTE once per pendency type
NoPendency == 0
ATIVO == [name |-> "ATIVO", pendency_type |-> NoPendency]
PENDENTE(p) == [name |-> "PENDENTE", pendency_type |-> p]
DomSupplierSituation ==
    {ATIVO} \cup {PENDENTE(p) : p \in PENDENCIA_CADASTRO..PENDENCIA_AVALIACAO}

RACI_CHOICES == {"A", "R", "C", "I", "-", "A/R"}
\* the six contract_execution_monitoring_* columns of a matrix row
MonitoringRows ==
    { <<"-", "-", "-", "-", "-", "-">>,
      <<"A", "-", "-", "-", "-", "-">>,
      <<"A", "R", "C", "I", "R", "C">> }

ContractRows == {[object_contract |-> ""], [object_contract |-> "O"]}
SupplierRows ==
    [trade_name : {"", "T"},
     risk_level : RiskLevels \cup {NoneVal},
     contract : {Ref(c) : c \in ContractRows} \cup {Unset}]
\* the row a supplier is registered with when it is not an edited one
FixedSupplierRow == [trade_name |-> "", risk_level |-> "r1", contract |-> Unset]
RowsFor(s) == IF s \in EditedSuppliers THEN SupplierRows ELSE {FixedSupplierRow}

(***************************************************************************)
(* CompletenessValidator                                                   *)
(***************************************************************************)
\* a record as validate_object_complete sees it: the sequence obj._meta.fields
\* with, for every field, its kind ("auto" for auto_created / auto_now /
\* auto_now_add fields, "relation" for ForeignKey and OneToOneField,
\* otherwise get_internal_type(), "other" standing for the types that are
\* neither CharField nor TextField), its declared default (None when
\* NOT_PROVIDED) and its value; the value of a relation is Unset or
\* <<record>>
Field(kind, default, value) ==
    [kind |-> kind, default |-> default, value |-> value]

equals_none_only(field) == field.value = NoneVal

\* value == default or value is None
equals_default_or_none(field) ==
    field.value = field.default \/ field.value = NoneVal

\* the loop of validate_object_complete from field i on: its verdict, and the
\* number of fields it read before returning
RECURSIVE validate_fields(_, _)
validate_fields(obj, i) ==
    IF i > Len(obj) THEN [ok |-> TRUE, read |-> 0]
    ELSE
    LET field == obj[i]
        rest == validate_fields(obj, i + 1)
        continue == [ok |-> rest.ok, read |-> rest.read + 1]
        return_false == [ok |-> FALSE, read |-> 1]
    IN  IF field.kind = "auto" THEN continue
        ELSE IF field.kind = "relation"
        THEN IF field.value = Unset THEN return_false
             ELSE LET inner == validate_fields(field.value[1], 1)
                  IN  IF ~inner.ok
                      THEN [ok |-> FALSE, read |-> inner.read + 1]
                      ELSE [ok |-> rest.ok,
                            read |-> inner.read + 1 + rest.read]
        ELSE IF field.kind = "CharField"
        THEN IF field.value = field.default THEN return_false ELSE continue
        ELSE IF equals_default_or_none(field) THEN return_false
             ELSE continue

validate_object_complete(obj) == validate_fields(obj, 1).ok

\* Contract: object_contract is a CharField with default ""
ContractObject(c) == <<Field("CharField", "", c.object_contract)>>

validate_contract_complete(c) == validate_object_complete(ContractObject(c))

\* a DomRiskLevel row: name is a CharField without default
RiskLevelObject(r) == <<Field("CharField", NoneVal, r)>>

\* a Supplier row: trade_name is a CharField with default "", risk_level and
\* contract are relationships
SupplierObject(row) ==
    << Field("CharField", "", row.trade_name),
       Field("relation", NoneVal,
             IF row.risk_level = NoneVal THEN Unset
             ELSE <<RiskLevelObject(row.risk_level)>>),
       Field("relation", NoneVal,
             IF row.contract = Unset THEN Unset
             ELSE <<ContractObject(row.contract[1])>>) >>

\* SupplierAttachment.is_completed_files, for any attachment of supplier s
is_completed_files(sup, atts, s) ==
    LET total_supplier_attachs == Cardinality({a \in atts : a.supplier = s})
        total_needed_attachs ==
            Cardinality({a \in atts :
                         TypeRisk[a.attachment_type] = sup[s].risk_level})
    IN total_supplier_attachs >= total_needed_attachs

\* ResponsibilityMatrix.is_completed: every contract_execution_monitoring
\* column is filled in
matrix_is_completed(m) == \A i \in DOMAIN m : m[i] # "-"

\* Supplier.is_completed_registration
is_completed_registration(sup, atts, mat, s) ==
    LET is_obj_complete == validate_object_complete(SupplierObject(sup[s]))
        is_files_complete ==
            /\ \E a \in atts : a.supplier = s
            /\ is_completed_files(sup, atts, s)
        is_responsibility_complete ==
            /\ s \in DOMAIN mat
            /\ matrix_is_completed(mat[s])
    IN is_obj_complete /\ is_files_complete /\ is_responsibility_complete

(***************************************************************************)
(* SituationDeriver                                                        *)
(***************************************************************************)
\* Supplier.situation: the most recently created row as <<row>>, <<>> if none
situation(hist) == SubSeq(hist, Len(hist), Len(hist))

situation_name(hist) ==
    IF hist = <<>> THEN NoneVal ELSE hist[Len(hist)].name

get_or_create_always(hist, status) == Append(hist, status)

get_or_create_replacing(hist, status) ==
    IF hist = <<>> THEN <<status>>
    ELSE [hist EXCEPT ![Len(hist)] = status]

\* SupplierSituation.objects.get_or_create(supplier, status): the pair
\* (supplier, status) is looked up first and inserted only when absent
get_or_create(hist, status) ==
    IF \E i \in DOMAIN hist : hist[i] = status
    THEN hist
    ELSE Append(hist, status)

\* post_save receiver of Supplier: the history of s after the handler
verify_supplier_pendency(sup, atts, mat, hist, s) ==
    LET is_completed == is_completed_registration(sup, atts, mat, s)
    IN  IF is_completed
        THEN get_or_create(hist, ATIVO)
        ELSE IF hist = <<>> \/ situation_name(hist) # "PENDENTE"
             THEN get_or_create(hist, PENDENTE(PENDENCIA_CADASTRO))
             ELSE hist

\* post_save receiver of ResponsibilityMatrix
verify_responsability_matrix_pendency(sup, atts, mat, hist, s) ==
    LET is_completed == matrix_is_completed(mat[s])
    IN  IF ~is_completed /\ (hist = <<>> \/ situation_name(hist) # "PENDENTE")
        THEN get_or_create(hist, PENDENTE(PENDENCIA_MATRIZ_RESPONSABILIDADE))
        ELSE IF /\ is_completed
                /\ is_completed_registration(sup, atts, mat, s)
                /\ hist # <<>>
                /\ situation_name(hist) # "ATIVO"
             THEN get_or_create(hist, ATIVO)
             ELSE hist

\* post_save receiver of SupplierAttachment
verify_supplier_attachment_pendency(sup, atts, mat, hist, s) ==
    LET is_completed == is_completed_files(sup, atts, s)
    IN  IF ~is_completed /\ (hist = <<>> \/ situation_name(hist) # "PENDENTE")
        THEN get_or_create(hist, PENDENTE(PENDENCIA_DOCUMENTACAO))
        ELSE IF /\ is_completed
                /\ is_completed_registration(sup, atts, mat, s)
                /\ hist # <<>>
                /\ situation_name(hist) # "ATIVO"
             THEN get_or_create(hist, ATIVO)
             ELSE hist

\* what the request served last did: the aggregate it wrote, whether it
\* re-saved what the request before it had just saved (same aggregate, same
\* supplier, no table changed), and how many situation rows its handler
\* appended
Served(kind, s, same_tables, old_hist, new_hist) ==
    [kind |-> kind, supplier |-> s,
     repeat |-> same_tables /\ last.kind = kind /\ last.supplier = s,
     appended |-> Len(new_hist) - Len(old_hist)]
NothingServed ==
    [kind |-> "none", supplier |-> NoneVal, repeat |-> FALSE, appended |-> 0]

\* Supplier.objects.create through the serializer: insert, then post_save
CreateSupplier(s) ==
    /\ s \notin DOMAIN suppliers
    /\ \E row \in RowsFor(s) :
        LET sup == Insert(suppliers, s, row)
            hist == verify_supplier_pendency(sup, attachments,
                        responsibility_matrix, situations[s], s)
        IN  /\ suppliers' = sup
            /\ situations' = [situations EXCEPT ![s] = hist]
            /\ last' = Served("supplier", s, FALSE, situations[s], hist)
    /\ UNCHANGED <<attachments, responsibility_matrix, workflow_vars>>

\* SupplierInSerializer.update: the row (and its nested contract) is
\* written, then post_save; the submitted row may equal the stored one
SaveSupplier(s) ==
    /\ s \in EditedSuppliers
    /\ s \in DOMAIN suppliers
    /\ \E row \in RowsFor(s) :
        LET sup == [suppliers EXCEPT ![s] = row]
            hist == verify_supplier_pendency(sup, attachments,
                        responsibility_matrix, situations[s], s)
        IN  /\ suppliers' = sup
            /\ situations' = [situations EXCEPT ![s] = hist]
            /\ last' = Served("supplier", s, sup = suppliers,
                              situations[s], hist)
    /\ UNCHANGED <<attachments, responsibility_matrix, workflow_vars>>

\* BaseAPIView.delete on a supplier: the delete cascades to its attachments,
\* matrix and situations; no post_save handler runs
DeleteSupplier(s) ==
    /\ s \in EditedSuppliers
    /\ s \in DOMAIN suppliers
    /\ suppliers' = Remove(suppliers, s)
    /\ attachments' = {a \in attachments : a.supplier # s}
    /\ responsibility_matrix' = Remove(responsibility_matrix, s)
    /\ situations' = [situations EXCEPT ![s] = <<>>]
    /\ last' = NothingServed
    /\ UNCHANGED workflow_vars

\* ResponsibilityMatrixView post / put / patch: the row is written (created
\* when the supplier has none), then post_save
SaveMatrix(s) ==
    /\ s \in EditedSuppliers
    /\ s \in DOMAIN suppliers
    /\ \E m \in MonitoringRows :
        LET mat == Insert(responsibility_matrix, s, m)
            hist == verify_responsability_matrix_pendency(suppliers,
                        attachments, mat, situations[s], s)
        IN  /\ responsibility_matrix' = mat
            /\ situations' = [situations EXCEPT ![s] = hist]
            /\ last' = Served("matrix", s, mat = responsibility_matrix,
                              situations[s], hist)
    /\ UNCHANGED <<suppliers, attachments, workflow_vars>>

\* AttachmentService.create_attachment / upload / put / patch: an existing
\* row of the same (supplier, type) is replaced, the row is saved, then
\* post_save
SaveAttachment(s, t) ==
    /\ s \in DOMAIN suppliers
    /\ LET atts == attachments \cup {[supplier |-> s, attachment_type |-> t]}
           hist == verify_supplier_attachment_pendency(suppliers, atts,
                       responsibility_matrix, situations[s], s)
       IN  /\ attachments' = atts
           /\ situations' = [situations EXCEPT ![s] = hist]
           /\ last' = Served("attachment", s, atts = attachments,
                             situations[s], hist)
    /\ UNCHANGED <<suppliers, responsibility_matrix, workflow_vars>>

\* SupplierAttachmentView.delete: the row is removed; no handler runs
DeleteAttachment(s, t) ==
    /\ [supplier |-> s, attachment_type |-> t] \in attachments
    /\ attachments' = attachments \ {[supplier |-> s, attachment_type |-> t]}
    /\ last' = NothingServed
    /\ UNCHANGED <<suppliers, responsibility_matrix, situations, workflow_vars>>

NoResponse ==
    [op |-> "none", status |-> 0, detail |-> "", supplier |-> NoneVal,
     flow |-> 0, step |-> NoneVal, is_approved |-> FALSE,
     after_rejection |-> FALSE]

WorkflowIdle ==
    /\ approval_steps = <<>>
    /\ approval_flows = {}
    /\ step_approvals = {}
    /\ approvers = {}
    /\ next_id = 1
    /\ requests = <<>>
    /\ response = NoResponse

InitSituation ==
    /\ suppliers = <<>>
    /\ attachments = {}
    /\ responsibility_matrix = <<>>
    /\ situations = [s \in SupplierIds |-> <<>>]
    /\ last = NothingServed
    /\ WorkflowIdle

NextSituation ==
    \/ \E s \in SupplierIds : CreateSupplier(s)
    \/ \E s \in SupplierIds : SaveSupplier(s)
    \/ \E s \in SupplierIds : DeleteSupplier(s)
    \/ \E s \in SupplierIds : SaveMatrix(s)
    \/ \E s \in SupplierIds, t \in AttachmentTypes : SaveAttachment(s, t)
    \/ \E s \in SupplierIds, t \in AttachmentTypes : DeleteAttachment(s, t)

SpecSituation == InitSituation /\ [][NextSituation]_vars

(***************************************************************************)
(* ApprovalWorkflowEngine: ApprovalStep catalogue, ApprovalFlow,           *)
(* StepApproval                                                            *)
(***************************************************************************)
StepIds == {"st1", "st2", "st3"}
MaxOrder == 3
\* the catalogues the approval_step table may hold: any steps, any orders
StepCatalogues ==
    UNION {[S -> 1..MaxOrder] : S \in SUBSET StepIds}
\* approver identities (email, name) submitted with a decision: the same
\* email is submitted under two names
ApproverInputs == {<<"a@x", "A">>, <<"a@x", "B">>}
UnknownSupplier == "s9"

HTTP_201_CREATED == 201
HTTP_400_BAD_REQUEST == 400
HTTP_404_NOT_FOUND == 404
HTTP_500_INTERNAL_SERVER_ERROR == 500

ERROR_FLOW_EXISTS == "Ja existe um fluxo de aprovacao para este fornecedor."
ERROR_SUPPLIER_NOT_FOUND == "Fornecedor nao encontrado."
ERROR_FLOW_NOT_FOUND == "Fluxo de aprovacao nao encontrado."
ERROR_NO_CURRENT_STEP == "Este fluxo nao possui um passo atual definido."
ERROR_STEP_ALREADY_EVALUATED == "Este passo ja foi avaliado anteriormente."

\* ApprovalFlow.is_completed
is_completed(flow) == flow.completion_date # NoneVal

complete_flow_keeping_step(flow) == [flow EXCEPT !.completion_date = "now"]

\* ApprovalFlow.complete_flow
complete_flow(flow) ==
    [flow EXCEPT !.completion_date = "now", !.current_step = NoneVal]

first_steps_desc(steps) ==
    {st \in DOMAIN steps : \A o \in DOMAIN steps : steps[o] <= steps[st]}

\* ApprovalStep.objects.order_by("order").first(): the rows the query may
\* return (the database picks among steps of equal order)
first_steps(steps) ==
    {st \in DOMAIN steps : \A o \in DOMAIN steps : steps[st] <= steps[o]}

next_steps_gte(steps, cur) ==
    LET after == {st \in DOMAIN steps : steps[st] >= steps[cur]}
    IN  {st \in after : \A o \in after : steps[st] <= steps[o]}

\* ApprovalStep.objects.filter(order__gt=cur.order).order_by("order").first()
next_steps(steps, cur) ==
    LET after == {st \in DOMAIN steps : steps[st] > steps[cur]}
    IN  {st \in after : \A o \in after : steps[st] <= steps[o]}

advance_completed_too(flow, steps) ==
    IF flow.current_step = NoneVal
    THEN IF first_steps(steps) # {}
         THEN {[flow EXCEPT !.current_step = st] : st \in first_steps(steps)}
         ELSE {flow}
    ELSE IF next_steps(steps, flow.current_step) # {}
         THEN {[flow EXCEPT !.current_step = st] :
                   st \in next_steps(steps, flow.current_step)}
         ELSE {complete_flow(flow)}

\* ApprovalFlow.advance_to_next_step on an instance: the instances it may
\* leave (and save); an instance equal to the given one was not saved
advance_to_next_step(flow, steps) ==
    IF is_completed(flow) THEN {flow}
    ELSE IF flow.current_step = NoneVal
         THEN IF first_steps(steps) # {}
              THEN {[flow EXCEPT !.current_step = st] : st \in first_steps(steps)}
              ELSE {flow}
         ELSE IF next_steps(steps, flow.current_step) # {}
              THEN {[flow EXCEPT !.current_step = st] :
                        st \in next_steps(steps, flow.current_step)}
              ELSE {complete_flow(flow)}

unique_supplier_unchecked(flows, s) == FALSE

\* the one-to-one constraint of ApprovalFlow.supplier: an insert for a
\* supplier that already has a flow row raises IntegrityError
unique_supplier_violated(flows, s) == \E f \in flows : f.supplier = s

\* Model.save() of a flow instance: the row with its primary key is written
save_flow(flows, inst) == {f \in flows : f.id # inst.id} \cup {inst}

approver_update_or_create(tbl, email, name) ==
    {a \in tbl : a.email # email} \cup {[email |-> email, name |-> name]}

\* Approver.objects.get_or_create(email=, defaults={"name": }): the table
\* after the call
approver_get_or_create(tbl, email, name) ==
    IF \E a \in tbl : a.email = email
    THEN tbl
    ELSE tbl \cup {[email |-> email, name |-> name]}

NewFlow(id, s) ==
    [id |-> id, supplier |-> s, current_step |-> NoneVal,
     completion_date |-> NoneVal]

\* a response: status code, error detail ("" on success), and what the
\* request was about (supplier, flow, the step decided on, the decision,
\* whether the step carried a rejection when the request arrived)
Response(op, status, detail, s, flow, step, is_approved, after_rejection) ==
    [op |-> op, status |-> status, detail |-> detail, supplier |-> s,
     flow |-> flow, step |-> step, is_approved |-> is_approved,
     after_rejection |-> after_rejection]
IntegrityError == "IntegrityError"

flow_exists_unchecked(flows, s) == FALSE

\* ApprovalFlow.objects.filter(supplier_id=supplier_id).exists()
flow_exists(flows, s) == \E f \in flows : f.supplier = s

already_evaluated_approved_only(approvals, flow_id, step) ==
    \E a \in approvals :
        a.approval_flow = flow_id /\ a.step = step /\ a.is_approved

\* StepApproval.objects.filter(approval_flow=, step=current_step).exists()
already_evaluated(approvals, flow_id, step) ==
    \E a \in approvals : a.approval_flow = flow_id /\ a.step = step

unique_step_unchecked(approvals, flow_id, step) == FALSE

\* unique_together (approval_flow, step) of StepApproval: an insert for a
\* pair that already has a row raises IntegrityError
unique_step_violated(approvals, flow_id, step) ==
    \E a \in approvals : a.approval_flow = flow_id /\ a.step = step

after_decision_always_advancing(flow, steps, is_approved) ==
    advance_to_next_step(flow, steps)

\* what StepApprovalCreateView.post does to the flow instance once the
\* decision is stored: the instances it may leave
after_decision(flow, steps, is_approved) ==
    IF is_approved THEN advance_to_next_step(flow, steps) ELSE {flow}

\* StartApprovalFlowView.post served without interleaving
StartApprovalFlow(s) ==
    /\ UNCHANGED <<situation_vars, last, approval_steps, step_approvals,
                   approvers, requests>>
    /\ IF s \notin DOMAIN suppliers
       THEN /\ response' = Response("start", HTTP_404_NOT_FOUND,
                                    ERROR_SUPPLIER_NOT_FOUND, s, 0,
                                    NoneVal, FALSE, FALSE)
            /\ UNCHANGED <<approval_flows, next_id>>
       ELSE IF flow_exists(approval_flows, s)
       THEN /\ response' = Response("start", HTTP_400_BAD_REQUEST,
                                    ERROR_FLOW_EXISTS, s, 0,
                                    NoneVal, FALSE, FALSE)
            /\ UNCHANGED <<approval_flows, next_id>>
       ELSE IF unique_supplier_violated(approval_flows, s)
       THEN /\ response' = Response("start", HTTP_500_INTERNAL_SERVER_ERROR,
                                    IntegrityError, s, 0, NoneVal, FALSE,
                                    FALSE)
            /\ UNCHANGED <<approval_flows, next_id>>
       ELSE \E inst \in advance_to_next_step(NewFlow(next_id, s), approval_steps) :
            /\ approval_flows' = save_flow(approval_flows, inst)
            /\ next_id' = next_id + 1
            /\ response' = Response("start", HTTP_201_CREATED, "", s, next_id,
                                    NoneVal, FALSE, FALSE)

\* the approver identity a decide request submitted
DecisionBy(email, name) ==
    [kind |-> "decide", supplier |-> NoneVal, email |-> email, name |-> name]

\* StepApprovalCreateView.post served without interleaving
Decide(flow_id, email, name, is_approved) ==
    /\ UNCHANGED <<situation_vars, approval_steps, next_id, requests>>
    /\ last' = DecisionBy(email, name)
    /\ IF ~ \E f \in approval_flows : f.id = flow_id
       THEN /\ response' = Response("decide", HTTP_404_NOT_FOUND,
                                    ERROR_FLOW_NOT_FOUND, NoneVal,
                                    flow_id, NoneVal, is_approved, FALSE)
            /\ UNCHANGED <<approval_flows, step_approvals, approvers>>
       ELSE
        LET flow == CHOOSE f \in approval_flows : f.id = flow_id
            step == flow.current_step
            evaluated == already_evaluated(step_approvals, flow_id, step)
            rejected == \E a \in step_approvals :
                            /\ a.approval_flow = flow_id
                            /\ a.step = step
                            /\ ~a.is_approved
        IN  IF step = NoneVal
            THEN /\ response' = Response("decide", HTTP_400_BAD_REQUEST,
                                  ERROR_NO_CURRENT_STEP,
                                  flow.supplier, flow_id, step, is_approved,
                                  FALSE)
                 /\ UNCHANGED <<approval_flows, step_approvals, approvers>>
            ELSE IF evaluated
            THEN /\ response' = Response("decide", HTTP_400_BAD_REQUEST,
                                  ERROR_STEP_ALREADY_EVALUATED,
                                  flow.supplier, flow_id, step, is_approved,
                                  rejected)
                 /\ UNCHANGED <<approval_flows, step_approvals, approvers>>
            ELSE IF unique_step_violated(step_approvals, flow_id, step)
            THEN /\ approvers' = approver_get_or_create(approvers, email, name)
                 /\ response' = Response("decide",
                                  HTTP_500_INTERNAL_SERVER_ERROR,
                                  IntegrityError, flow.supplier, flow_id,
                                  step, is_approved, rejected)
                 /\ UNCHANGED <<approval_flows, step_approvals>>
            ELSE /\ approvers' = approver_get_or_create(approvers, email, name)
                 /\ step_approvals' = step_approvals \cup
                        {[approval_flow |-> flow_id, step |-> step,
                          approver |-> email, is_approved |-> is_approved]}
                 /\ \E inst \in after_decision(flow, approval_steps,
                                                is_approved) :
                        approval_flows' = save_flow(approval_flows, inst)
                 /\ response' = Response("decide", HTTP_201_CREATED, "",
                                  flow.supplier, flow_id, step, is_approved,
                                  rejected)

\* the suppliers are registered (each with its first situation row) and the
\* step catalogue is loaded before the workflow requests arrive
RegisteredSuppliers ==
    /\ suppliers = [s \in SupplierIds |-> FixedSupplierRow]
    /\ attachments = {}
    /\ responsibility_matrix = <<>>
    /\ situations = [s \in SupplierIds |-> <<PENDENTE(PENDENCIA_CADASTRO)>>]
    /\ last = NothingServed

InitWorkflow ==
    /\ RegisteredSuppliers
    /\ approval_steps \in StepCatalogues
    /\ approval_flows = {}
    /\ step_approvals = {}
    /\ approvers = {}
    /\ next_id = 1
    /\ requests = <<>>
    /\ response = NoResponse

NextWorkflow ==
    \/ \E s \in SupplierIds \cup {UnknownSupplier} : StartApprovalFlow(s)
    \/ \E flow_id \in 1..next_id, who \in ApproverInputs,
          is_approved \in BOOLEAN :
            Decide(flow_id, who[1], who[2], is_approved)

SpecWorkflow == InitWorkflow /\ [][NextWorkflow]_vars

(***************************************************************************)
(* Properties of the sequential workflow                                   *)
(***************************************************************************)
FlowById(id) == CHOOSE f \in approval_flows : f.id = id
HasFlowId(id) == \E f \in approval_flows : f.id = id
StrictlyOrdered(steps) ==
    /\ DOMAIN steps # {}
    /\ \A a, b \in DOMAIN steps : a # b => steps[a] # steps[b]
Accepted(op) == response.op = op /\ response.status = HTTP_201_CREATED

\* the step an approval of step st must lead to is the one of smallest
\* order strictly greater than the order of st, none when st is last
C4_MovedToNext ==
    (Accepted("decide") /\ response.is_approved) =>
        LET flow == FlowById(response.flow)
            greater == {st \in DOMAIN approval_steps :
                          approval_steps[st] > approval_steps[response.step]}
        IN  IF greater = {}
            THEN flow.current_step = NoneVal
            ELSE /\ flow.current_step \in greater
                 /\ \A st \in greater :
                       approval_steps[flow.current_step] <= approval_steps[st]

\* every step a flow was approved on lies strictly before its current step
C4_NotRevisited ==
    \A a \in step_approvals :
        (a.is_approved /\ HasFlowId(a.approval_flow)) =>
            LET flow == FlowById(a.approval_flow)
            IN  flow.current_step # NoneVal =>
                  approval_steps[a.step] < approval_steps[flow.current_step]

\* a flow that is on a step only ever moves to a step of greater order, or
\* to no step
C4_OrderIncreases ==
    \A f \in approval_flows : \A g \in approval_flows' :
        (f.id = g.id /\ f.current_step # NoneVal /\ g.current_step # NoneVal
           /\ g.current_step # f.current_step)
        => approval_steps[g.current_step] > approval_steps[f.current_step]

\* C4: approving the current step moves the flow to the step with the
\* smallest order strictly greater than the current one (to no step when it
\* is the last); over any sequence of approvals the order of the current
\* step strictly increases and no step is visited again.
C4_ApproveAdvancesInOrder ==
    /\ [](C4_MovedToNext /\ C4_NotRevisited)
    /\ [][C4_OrderIncreases]_vars

\* a flow was approved on two steps and stands on a third
C4_Witness ==
    /\ Accepted("decide") /\ response.is_approved
    /\ FlowById(response.flow).current_step # NoneVal
    /\ Cardinality({a \in step_approvals :
            a.approval_flow = response.flow /\ a.is_approved}) = 2

\* C5: a decide request on a flow whose current step carries a rejection
\* is accepted (the flow awaits a new decision after a rejection).
C5_DecideAfterRejectionAccepted ==
    (response.op = "decide" /\ response.after_rejection)
        => response.status = HTTP_201_CREATED

\* C9: with steps of strictly increasing order defined, a started flow is
\* on the step with the lowest order and is not completed.
C9_StartOnLowestStep ==
    (Accepted("start") /\ StrictlyOrdered(approval_steps)) =>
        LET flow == FlowById(response.flow)
        IN  /\ flow.supplier = response.supplier
            /\ flow.current_step \in DOMAIN approval_steps
            /\ \A st \in DOMAIN approval_steps :
                  approval_steps[flow.current_step] <= approval_steps[st]
            /\ ~is_completed(flow)

\* a flow was started with three steps defined, the lowest not being st1
C9_Witness ==
    /\ Accepted("start")
    /\ StrictlyOrdered(approval_steps)
    /\ DOMAIN approval_steps = StepIds
    /\ approval_steps["st1"] # 1

\* C10: approving the step with the highest order completes the flow:
\* completion_date is set, is_completed is true, there is no current step.
C10_ApproveLastCompletes ==
    (/\ Accepted("decide") /\ response.is_approved
     /\ \A st \in DOMAIN approval_steps :
            approval_steps[st] <= approval_steps[response.step]) =>
        LET flow == FlowById(response.flow)
        IN  /\ flow.completion_date # NoneVal
            /\ is_completed(flow)
            /\ flow.current_step = NoneVal

\* the last of three steps was approved
C10_Witness ==
    /\ Accepted("decide") /\ response.is_approved
    /\ Cardinality(DOMAIN approval_steps) = 3
    /\ is_completed(FlowById(response.flow))
    /\ Cardinality({a \in step_approvals :
            a.approval_flow = response.flow /\ a.is_approved}) = 3

\* C11: rejecting the current step of a flow changes neither the current
\* step nor the completion state: after an accepted reject the flow is on
\* the step it was on when the request arrived and is not completed.
C11_RejectKeepsFlow ==
    (Accepted("decide") /\ ~response.is_approved) =>
        LET flow == FlowById(response.flow)
        IN  /\ flow.current_step = response.step
            /\ ~is_completed(flow)

\* a step was rejected on a flow that had advanced past an approved step,
\* with a later step still defined
C11_Witness ==
    /\ Accepted("decide") /\ ~response.is_approved
    /\ \E a \in step_approvals :
            a.approval_flow = response.flow /\ a.is_approved
    /\ next_steps(approval_steps, response.step) # {}

\* C12: a start request for a supplier that already has a flow is answered
\* with the 400 'flow exists' error, creates no flow and leaves every
\* existing flow (current step, completion) as it was.
C12_DuplicateStartFails ==
    [][(/\ response'.op = "start"
        /\ \E f \in approval_flows : f.supplier = response'.supplier)
       => /\ response'.status = HTTP_400_BAD_REQUEST
          /\ response'.detail = ERROR_FLOW_EXISTS
          /\ approval_flows' = approval_flows
          /\ next_id' = next_id]_vars

\* a second start was refused for a supplier whose flow had already moved
\* past its first step
C12_Witness ==
    /\ response.op = "start"
    /\ response.status = HTTP_400_BAD_REQUEST
    /\ response.detail = ERROR_FLOW_EXISTS
    /\ \E f \in approval_flows :
        /\ f.supplier = response.supplier
        /\ \E a \in step_approvals : a.approval_flow = f.id /\ a.is_approved

\* the current step of the flow a decide request names carries a decision
StepCarriesDecision(flow_id) ==
    /\ HasFlowId(flow_id)
    /\ FlowById(flow_id).current_step # NoneVal
    /\ \E a \in step_approvals :
        /\ a.approval_flow = flow_id
        /\ a.step = FlowById(flow_id).current_step

\* C13: a decide request on a flow whose current step already carries a
\* decision is answered with the 'already evaluated' error, creates no
\* StepApproval and leaves the flow as it was; a nonexistent flow and a flow
\* without a current step are answered with their own, different errors.
C13_AlreadyEvaluatedRejected ==
    [][response'.op = "decide" =>
        /\ StepCarriesDecision(response'.flow) =>
            /\ response'.status = HTTP_400_BAD_REQUEST
            /\ response'.detail = ERROR_STEP_ALREADY_EVALUATED
            /\ step_approvals' = step_approvals
            /\ approval_flows' = approval_flows
        /\ ~HasFlowId(response'.flow) =>
            /\ response'.detail = ERROR_FLOW_NOT_FOUND
            /\ response'.detail # ERROR_STEP_ALREADY_EVALUATED
        /\ (HasFlowId(response'.flow)
              /\ FlowById(response'.flow).current_step = NoneVal) =>
            /\ response'.detail = ERROR_NO_CURRENT_STEP
            /\ response'.detail # ERROR_STEP_ALREADY_EVALUATED]_vars

\* a decide request was refused as already evaluated on a flow that had
\* advanced before
C13_Witness ==
    /\ response.op = "decide"
    /\ response.status = HTTP_400_BAD_REQUEST
    /\ response.detail = ERROR_STEP_ALREADY_EVALUATED
    /\ \E a \in step_approvals :
            a.approval_flow = response.flow /\ a.is_approved

(***************************************************************************)
(* Concurrent start-flow requests: StartApprovalFlowView.post one          *)
(* database statement at a time                                            *)
(***************************************************************************)
RequestIds == {"q1", "q2"}

\* a request that has loaded its supplier and is about to check for a flow
Arrived(s) ==
    [pc |-> "check", supplier |-> s, instance |-> NewFlow(0, s), status |-> 0]

\* ApprovalFlow.objects.filter(supplier_id=supplier_id).exists()
StartCheck(q) ==
    /\ requests[q].pc = "check"
    /\ IF flow_exists(approval_flows, requests[q].supplier)
       THEN requests' = [requests EXCEPT ![q].pc = "done",
                                         ![q].status = HTTP_400_BAD_REQUEST]
       ELSE requests' = [requests EXCEPT ![q].pc = "create"]
    /\ UNCHANGED <<situation_vars, last, approval_steps, approval_flows,
                   step_approvals, approvers, next_id, response>>

\* ApprovalFlow.objects.create(supplier=supplier)
StartCreate(q) ==
    /\ requests[q].pc = "create"
    /\ IF unique_supplier_violated(approval_flows, requests[q].supplier)
       THEN /\ requests' = [requests EXCEPT
                    ![q].pc = "done",
                    ![q].status = HTTP_500_INTERNAL_SERVER_ERROR]
            /\ UNCHANGED <<approval_flows, next_id>>
       ELSE LET inst == NewFlow(next_id, requests[q].supplier)
            IN  /\ approval_flows' = approval_flows \cup {inst}
                /\ next_id' = next_id + 1
                /\ requests' = [requests EXCEPT ![q].pc = "advance",
                                                ![q].instance = inst]
    /\ UNCHANGED <<situation_vars, last, approval_steps, step_approvals,
                   approvers, response>>

\* approval_flow.advance_to_next_step() on the created instance, then the
\* response
StartAdvance(q) ==
    /\ requests[q].pc = "advance"
    /\ \E inst \in advance_to_next_step(requests[q].instance, approval_steps) :
        /\ approval_flows' = IF inst = requests[q].instance
                                THEN approval_flows
                                ELSE save_flow(approval_flows, inst)
        /\ requests' = [requests EXCEPT ![q].pc = "done",
                                        ![q].instance = inst,
                                        ![q].status = HTTP_201_CREATED]
    /\ UNCHANGED <<situation_vars, last, approval_steps, step_approvals,
                   approvers, next_id, response>>

InitStartRace ==
    /\ RegisteredSuppliers
    /\ approval_steps \in StepCatalogues
    /\ approval_flows = {}
    /\ step_approvals = {}
    /\ approvers = {}
    /\ next_id = 1
    /\ requests \in [RequestIds -> {Arrived(s) : s \in SupplierIds}]
    /\ response = NoResponse

NextStartRace ==
    \/ \E q \in RequestIds : StartCheck(q)
    \/ \E q \in RequestIds : StartCreate(q)
    \/ \E q \in RequestIds : StartAdvance(q)

SpecStartRace == InitStartRace /\ [][NextStartRace]_vars

\* C6: when two start-flow requests for the same supplier both pass the
\* existence check before either creates the flow, the supplier still has
\* at most one approval flow and at most one request reports success.
C6_OneFlowPerSupplier ==
    \A s \in SupplierIds :
        /\ Cardinality({f \in approval_flows : f.supplier = s}) <= 1
        /\ Cardinality({q \in RequestIds :
                /\ requests[q].supplier = s
                /\ requests[q].status = HTTP_201_CREATED}) <= 1

\* both requests passed the check for the same supplier; one created the
\* flow, the other hit the constraint
C6_Witness ==
    \E q, r \in RequestIds :
        /\ requests[q].supplier = requests[r].supplier
        /\ requests[q].status = HTTP_201_CREATED
        /\ requests[r].status = HTTP_500_INTERNAL_SERVER_ERROR

(***************************************************************************)
(* Concurrent decide requests: StepApprovalCreateView.post one database    *)
(* statement at a time, each request working on the flow instance it       *)
(* loaded                                                                  *)
(***************************************************************************)
DecideRequestIds == {"d1", "d2"}
\* the approver each request submits
DecideApprover == [q \in DecideRequestIds |->
                      IF q = "d1" THEN <<"a@x", "A">> ELSE <<"b@x", "B">>]

\* a decide request for flow flow_id that has not run any statement yet
DecideArrived(flow_id, is_approved) ==
    [pc |-> "load", flow |-> flow_id, is_approved |-> is_approved,
     instance |-> Unset, status |-> 0, detail |-> ""]

Answer(q, status, detail) ==
    [requests EXCEPT ![q].pc = "done", ![q].status = status,
                     ![q].detail = detail]

\* ApprovalFlow.objects.get(pk=flow_id), then the test of current_step on
\* the loaded instance
DecideLoad(q) ==
    /\ requests[q].pc = "load"
    /\ IF ~ \E f \in approval_flows : f.id = requests[q].flow
       THEN requests' = Answer(q, HTTP_404_NOT_FOUND, ERROR_FLOW_NOT_FOUND)
       ELSE LET flow == CHOOSE f \in approval_flows : f.id = requests[q].flow
            IN  IF flow.current_step = NoneVal
                THEN requests' = [Answer(q, HTTP_400_BAD_REQUEST,
                                         ERROR_NO_CURRENT_STEP)
                                    EXCEPT ![q].instance = Ref(flow)]
                ELSE requests' = [requests EXCEPT ![q].pc = "exists",
                                                  ![q].instance = Ref(flow)]
    /\ UNCHANGED <<situation_vars, last, approval_steps, approval_flows,
                   step_approvals, approvers, next_id, response>>

\* StepApproval.objects.filter(approval_flow=, step=current_step).exists()
DecideExists(q) ==
    /\ requests[q].pc = "exists"
    /\ IF already_evaluated(step_approvals, requests[q].flow,
                            requests[q].instance[1].current_step)
       THEN requests' = Answer(q, HTTP_400_BAD_REQUEST,
                               ERROR_STEP_ALREADY_EVALUATED)
       ELSE requests' = [requests EXCEPT ![q].pc = "validate"]
    /\ UNCHANGED <<situation_vars, last, approval_steps, approval_flows,
                   step_approvals, approvers, next_id, response>>

\* serializer.is_valid: ApproveStepSerializer.validate looks the approver up
\* by email and creates it when absent
DecideValidate(q) ==
    /\ requests[q].pc = "validate"
    /\ approvers' = approver_get_or_create(approvers, DecideApprover[q][1],
                                           DecideApprover[q][2])
    /\ requests' = [requests EXCEPT ![q].pc = "create"]
    /\ UNCHANGED <<situation_vars, last, approval_steps, approval_flows,
                   step_approvals, next_id, response>>

\* StepApproval.objects.create(approval_flow=, step=current_step, ...)
DecideCreate(q) ==
    /\ requests[q].pc = "create"
    /\ LET step == requests[q].instance[1].current_step
       IN  IF unique_step_violated(step_approvals, requests[q].flow, step)
           THEN /\ requests' = Answer(q, HTTP_500_INTERNAL_SERVER_ERROR,
                                      IntegrityError)
                /\ UNCHANGED step_approvals
           ELSE /\ step_approvals' = step_approvals \cup
                        {[approval_flow |-> requests[q].flow, step |-> step,
                          approver |-> DecideApprover[q][1],
                          is_approved |-> requests[q].is_approved]}
                /\ requests' = [requests EXCEPT ![q].pc = "advance"]
    /\ UNCHANGED <<situation_vars, last, approval_steps, approval_flows,
                   approvers, next_id, response>>

\* if step_approval.is_approved: approval_flow.advance_to_next_step() on the
\* loaded instance (its save writes the whole row), then the response
DecideAdvance(q) ==
    /\ requests[q].pc = "advance"
    /\ \E inst \in after_decision(requests[q].instance[1], approval_steps,
                                   requests[q].is_approved) :
        /\ approval_flows' = IF inst = requests[q].instance[1]
                                THEN approval_flows
                                ELSE save_flow(approval_flows, inst)
        /\ requests' = [Answer(q, HTTP_201_CREATED, "")
                            EXCEPT ![q].instance = Ref(inst)]
    /\ UNCHANGED <<situation_vars, last, approval_steps, step_approvals,
                   approvers, next_id, response>>

\* a flow was started for s1 (it is on a first step, nothing decided yet)
\* and the decide requests arrive
InitDecideRace ==
    /\ RegisteredSuppliers
    /\ approval_steps \in StepCatalogues
    /\ \E inst \in advance_to_next_step(NewFlow(1, "s1"), approval_steps) :
            approval_flows = {inst}
    /\ step_approvals = {}
    /\ approvers = {}
    /\ next_id = 2
    /\ requests \in [DecideRequestIds ->
                        {DecideArrived(id, b) : id \in 1..2, b \in BOOLEAN}]
    /\ response = NoResponse

NextDecideRace ==
    \/ \E q \in DecideRequestIds : DecideLoad(q)
    \/ \E q \in DecideRequestIds : DecideExists(q)
    \/ \E q \in DecideRequestIds : DecideValidate(q)
    \/ \E q \in DecideRequestIds : DecideCreate(q)
    \/ \E q \in DecideRequestIds : DecideAdvance(q)

SpecDecideRace == InitDecideRace /\ [][NextDecideRace]_vars

\* there is at most one StepApproval for every flow and step
C14_OneDecisionPerStep ==
    \A a, b \in step_approvals :
        (a.approval_flow = b.approval_flow /\ a.step = b.step) => a = b

\* of the requests that loaded the same flow on the same step at most one is
\* accepted
C14_OneAcceptedPerStep ==
    \A q, r \in DecideRequestIds :
        (/\ q # r
         /\ requests[q].instance # Unset /\ requests[r].instance # Unset
         /\ requests[q].flow = requests[r].flow
         /\ requests[q].status = HTTP_201_CREATED
         /\ requests[r].status = HTTP_201_CREATED)
        => \A a, b \in step_approvals :
              (/\ a.approval_flow = requests[q].flow
               /\ b.approval_flow = requests[q].flow
               /\ a.approver = DecideApprover[q][1]
               /\ b.approver = DecideApprover[r][1])
              => a.step # b.step

\* once every request is answered, each flow stands one step after the
\* last step it was approved on (completed when that step was the last),
\* and on its first step when nothing was approved
C14_OneAdvancePerApproval ==
    (\A q \in DecideRequestIds : requests[q].pc = "done") =>
        \A f \in approval_flows :
            LET approved == {a \in step_approvals :
                                a.approval_flow = f.id /\ a.is_approved}
            IN  IF approved = {}
                THEN /\ ~is_completed(f)
                     /\ f.current_step \in
                            first_steps(approval_steps) \cup {NoneVal}
                ELSE \E a \in approved :
                     /\ \A b \in approved :
                           approval_steps[b.step] <= approval_steps[a.step]
                     /\ IF next_steps(approval_steps, a.step) = {}
                        THEN is_completed(f) /\ f.current_step = NoneVal
                        ELSE f.current_step \in
                                next_steps(approval_steps, a.step)

\* every write to a flow moves it from its step to a next step, or
\* completes it when there is none
C14_SingleStepMoves ==
    \A f \in approval_flows : \A g \in approval_flows' :
        (f.id = g.id /\ f # g) =>
            /\ f.current_step # NoneVal
            /\ IF next_steps(approval_steps, f.current_step) = {}
               THEN is_completed(g) /\ g.current_step = NoneVal
               ELSE g.current_step \in next_steps(approval_steps, f.current_step)

\* C14: for every flow and step there is at most one StepApproval, also when
\* decide requests for the same flow interleave; concurrent approvals of the
\* same current step advance the flow by exactly one step, never by two.
C14_OneApprovalOneAdvance ==
    /\ [](C14_OneDecisionPerStep /\ C14_OneAcceptedPerStep
            /\ C14_OneAdvancePerApproval)
    /\ [][C14_SingleStepMoves]_vars

\* two approvals of the same flow both passed the existence check on the
\* same step; one was stored and advanced the flow, the other hit the
\* constraint
C14_Witness ==
    \E q, r \in DecideRequestIds :
        /\ requests[q].flow = requests[r].flow
        /\ requests[q].is_approved /\ requests[r].is_approved
        /\ requests[q].status = HTTP_201_CREATED
        /\ requests[r].status = HTTP_500_INTERNAL_SERVER_ERROR
        /\ \E f \in approval_flows :
              f.id = requests[q].flow /\ f.current_step # NoneVal

(***************************************************************************)
(* ResponsibilityMatrixValidator: ResponsibilityMatrixInSerializer behind  *)
(* the POST / PUT / PATCH handlers of ResponsibilityMatrixView.  A field   *)
(* name is the sequence of the words its underscores separate; a stored    *)
(* row here holds every RACI column, field name -> letter.                 *)
(***************************************************************************)
\* the six role columns of every activity, in model order
Columns ==
    << <<"requesting", "area">>, <<"administrative">>, <<"legal">>,
       <<"financial">>, <<"integrity">>, <<"board">> >>
contract_request == <<"contract", "request">>
contract_execution_monitoring == <<"contract", "execution", "monitoring">>
\* the activities of the row kept here: the first and the last of the
\* thirteen (the eleven between them are declared and validated as the
\* first is)
MatrixActivities == <<contract_request, contract_execution_monitoring>>

FieldName(activity, column) == activity \o column
\* the RACI fields in the order _meta.get_fields() yields them
ModelFields ==
    [i \in 1..(Len(MatrixActivities) * Len(Columns)) |->
        FieldName(MatrixActivities[((i - 1) \div Len(Columns)) + 1],
                  Columns[((i - 1) % Len(Columns)) + 1])]
FieldNames == {ModelFields[i] : i \in DOMAIN ModelFields}
DefaultRow == [f \in FieldNames |-> "-"]

\* _get_activity_prefixes: each entry ends with an underscore
get_activity_prefixes ==
    << <<"contract", "request">>, <<"document", "analysis">>,
       <<"risk", "consultation">>, <<"risk", "assessment">>,
       <<"system", "registration">>, <<"form", "handling">>,
       <<"contract", "draft">>, <<"compliance", "validation">>,
       <<"final", "approval">>, <<"contract", "signing">>,
       <<"document", "management">>, <<"payment", "release">> >>

\* field_name.startswith(prefix) for a prefix that ends with an underscore
startswith(field_name, prefix) ==
    /\ Len(field_name) > Len(prefix)
    /\ SubSeq(field_name, 1, Len(prefix)) = prefix

\* _find_matching_prefix: whether some prefix matches
find_matching_prefix(field_name, prefixes) ==
    \E i \in DOMAIN prefixes : startswith(field_name, prefixes[i])

\* field_name.rsplit("_", 1)[0]: the name without its last word
rsplit_head(field_name) == SubSeq(field_name, 1, Len(field_name) - 1)

\* _add_to_raci_fields on the groups in insertion order
add_to_raci_fields(raci_fields, activity, field_value) ==
    IF \E i \in DOMAIN raci_fields : raci_fields[i].activity = activity
    THEN [i \in DOMAIN raci_fields |->
            IF raci_fields[i].activity = activity
            THEN [raci_fields[i] EXCEPT !.values = Append(@, field_value)]
            ELSE raci_fields[i]]
    ELSE Append(raci_fields, [activity |-> activity, values |-> <<field_value>>])

RECURSIVE extract_from(_, _, _)
\* the loop of _extract_raci_fields from field i on
extract_from(attrs, i, raci_fields) ==
    IF i > Len(ModelFields) THEN raci_fields
    ELSE LET field_name == ModelFields[i]
         IN  IF /\ find_matching_prefix(field_name, get_activity_prefixes)
                /\ field_name \in DOMAIN attrs
             THEN extract_from(attrs, i + 1,
                      add_to_raci_fields(raci_fields, rsplit_head(field_name),
                                         attrs[field_name]))
             ELSE extract_from(attrs, i + 1, raci_fields)

\* _extract_raci_fields(attrs): the submitted values grouped by activity key
extract_raci_fields(attrs) == extract_from(attrs, 1, <<>>)

count(values, v) == Cardinality({i \in DOMAIN values : values[i] = v})

\* _validate_single_accountable: whether it raises
validate_single_accountable(values) ==
    count(values, "A") + count(values, "A/R") > 1

\* _validate_minimum_involvement: whether it raises
validate_minimum_involvement(values) ==
    \A i \in DOMAIN values : values[i] = "-"

NoError == [rule |-> "none", activity |-> <<>>]

\* _validate_raci_business_rules: the first failure of the loop over the
\* groups, NoError when nothing is raised
validate_raci_business_rules(raci_fields) ==
    LET failing == {i \in DOMAIN raci_fields :
                      \/ validate_single_accountable(raci_fields[i].values)
                      \/ validate_minimum_involvement(raci_fields[i].values)}
    IN  IF failing = {} THEN NoError
        ELSE LET i == CHOOSE k \in failing : \A j \in failing : k <= j
             IN  [rule |-> IF validate_single_accountable(raci_fields[i].values)
                           THEN "single_accountable"
                           ELSE "minimum_involvement",
                  activity |-> raci_fields[i].activity]

\* ResponsibilityMatrixInSerializer.validate(attrs)
validate(attrs) == validate_raci_business_rules(extract_raci_fields(attrs))

\* serializer.save(): the submitted fields over the stored row (over the
\* field defaults on create)
save_row(row, attrs) ==
    [f \in FieldNames |-> IF f \in DOMAIN attrs THEN attrs[f] ELSE row[f]]

\* the six columns of an activity of a row or of a full payload
ActivityValues(row, activity) ==
    [i \in DOMAIN Columns |-> row[FieldName(activity, Columns[i])]]

HTTP_200_OK == 200
RelatedObjectDoesNotExist == "RelatedObjectDoesNotExist"

\* the letters submitted, and the rows of an activity submitted: at most two
\* columns involved, any two, with any of the letters
RaciInputs == {"A", "A/R", "R", "-"}
ActivityRows ==
    {[k \in DOMAIN Columns |-> IF k = i THEN v ELSE IF k = j THEN w ELSE "-"] :
        i \in DOMAIN Columns, j \in DOMAIN Columns,
        v \in RaciInputs, w \in RaciInputs}

\* a request body naming every RACI field
FullPayload(request_row, monitoring_row) ==
    [f \in FieldNames |->
        LET i == CHOOSE k \in DOMAIN ModelFields : ModelFields[k] = f
            c == ((i - 1) % Len(Columns)) + 1
        IN  IF i <= Len(Columns) THEN request_row[c] ELSE monitoring_row[c]]
FullPayloads ==
    {FullPayload(r, m) : r \in ActivityRows, m \in MonitoringRows}
\* the bodies of the full updates: the rows that involve the first three
\* columns only
PutPayloads ==
    {FullPayload(r, m) :
        r \in {x \in ActivityRows : \A k \in 4..Len(Columns) : x[k] = "-"},
        m \in MonitoringRows}
\* the body a second create for the same supplier is sent with (it is
\* refused whatever it holds)
RepeatedPayload ==
    FullPayload([k \in DOMAIN Columns |-> IF k = 1 THEN "A" ELSE "-"],
                <<"A", "R", "C", "I", "R", "C">>)
\* request bodies naming one field
PatchPayloads ==
    {[f \in {FieldName(contract_request, c)} |-> v] :
        c \in {<<"administrative">>, <<"legal">>}, v \in {"A", "-"}}

\* the activities of the row that the RACI rules are stated for
RuledActivities ==
    {MatrixActivities[i] : i \in DOMAIN MatrixActivities}
        \cap {get_activity_prefixes[i] : i \in DOMAIN get_activity_prefixes}
Accountables(values) == count(values, "A") + count(values, "A/R")

\* the request served last: which activities of a body naming every field
\* held two or more accountables, and which held '-' in all six columns
Submitted(s, attrs) ==
    LET full == DOMAIN attrs = FieldNames
    IN  [kind |-> "matrix", supplier |-> s, full |-> full,
         double_accountable |->
            IF full THEN {a \in RuledActivities :
                            Accountables(ActivityValues(attrs, a)) > 1}
            ELSE {},
         uninvolved |->
            IF full THEN {a \in RuledActivities :
                            \A i \in DOMAIN Columns :
                                ActivityValues(attrs, a)[i] = "-"}
            ELSE {}]

MatrixResponse(op, status, error) ==
    [op |-> op, status |-> status, rule |-> error.rule,
     activity |-> error.activity]

\* the monitoring columns of every stored row, as the signal handler reads
\* them
MonitoringOf(tbl) ==
    [s \in DOMAIN tbl |-> ActivityValues(tbl[s], contract_execution_monitoring)]

\* a write of the row of s accepted by the serializer: save, then post_save
StoreMatrix(s, row) ==
    LET tbl == Insert(responsibility_matrix, s, row)
    IN  /\ responsibility_matrix' = tbl
        /\ situations' = [situations EXCEPT ![s] =
                verify_responsability_matrix_pendency(suppliers, attachments,
                    MonitoringOf(tbl), situations[s], s)]

\* BaseAPIView.post with ResponsibilityMatrixInSerializer: the one-to-one
\* supplier field is validated before validate(attrs) runs
PostMatrix(s, attrs) ==
    /\ s \in DOMAIN suppliers
    /\ s \in DOMAIN responsibility_matrix => attrs = RepeatedPayload
    /\ last' = Submitted(s, attrs)
    /\ UNCHANGED <<suppliers, attachments, approval_steps, approval_flows,
                   step_approvals, approvers, next_id, requests>>
    /\ IF s \in DOMAIN responsibility_matrix
       THEN /\ response' = MatrixResponse("post", HTTP_400_BAD_REQUEST,
                                [rule |-> "unique", activity |-> <<"supplier">>])
            /\ UNCHANGED <<responsibility_matrix, situations>>
       ELSE LET error == validate(attrs) IN
            IF error # NoError
       THEN /\ response' = MatrixResponse("post", HTTP_400_BAD_REQUEST, error)
            /\ UNCHANGED <<responsibility_matrix, situations>>
       ELSE /\ response' = MatrixResponse("post", HTTP_201_CREATED, NoError)
            /\ StoreMatrix(s, save_row(DefaultRow, attrs))

\* BaseAPIView.put and BaseAPIView.patch: the RACI fields have defaults, so
\* both validate the fields submitted and save them over the stored row
UpdateMatrix(op, s, attrs) ==
    /\ s \in DOMAIN suppliers
    /\ last' = Submitted(s, attrs)
    /\ UNCHANGED <<suppliers, attachments, approval_steps, approval_flows,
                   step_approvals, approvers, next_id, requests>>
    /\ IF s \notin DOMAIN responsibility_matrix
       THEN /\ response' = MatrixResponse(op, HTTP_500_INTERNAL_SERVER_ERROR,
                                [rule |-> RelatedObjectDoesNotExist,
                                 activity |-> <<>>])
            /\ UNCHANGED <<responsibility_matrix, situations>>
       ELSE LET error == validate(attrs) IN
            IF error # NoError
       THEN /\ response' = MatrixResponse(op, HTTP_400_BAD_REQUEST, error)
            /\ UNCHANGED <<responsibility_matrix, situations>>
       ELSE /\ response' = MatrixResponse(op, HTTP_200_OK, NoError)
            /\ StoreMatrix(s, save_row(responsibility_matrix[s], attrs))

\* BaseAPIView.put
PutMatrix(s, attrs) ==
    /\ attrs \in PutPayloads
    /\ UpdateMatrix("put", s, attrs)

\* BaseAPIView.patch (partial=True)
PatchMatrix(s, attrs) ==
    /\ attrs \in PatchPayloads
    /\ UpdateMatrix("patch", s, attrs)

InitMatrix ==
    /\ RegisteredSuppliers
    /\ WorkflowIdle

NextMatrix ==
    \/ \E s \in EditedSuppliers, attrs \in FullPayloads : PostMatrix(s, attrs)
    \/ \E s \in EditedSuppliers, attrs \in PutPayloads : PutMatrix(s, attrs)
    \/ \E s \in EditedSuppliers, attrs \in PatchPayloads : PatchMatrix(s, attrs)

SpecMatrix == InitMatrix /\ [][NextMatrix]_vars

(***************************************************************************)
(* ApprovalWorkflowEngine, append-only variant: ApprovalWorkflowService    *)
(* and the inbound serializers.  An approval_flow row stands for one step  *)
(* a supplier was put on: supplier, step, approver, observations,          *)
(* approved_at, reproved_at; a supplier may have several rows.             *)
(***************************************************************************)
MaxFlows == 3
ObservationInputs == {"obs"}

ValidationError == "ValidationError"
ValueError == "ValueError"
ERROR_FLOW_ALREADY_EXISTS == "Um fluxo de aprovacao ja existe para este fornecedor."
ERROR_NO_STEP_DEFINED == "Nenhum passo de aprovacao definido."
ERROR_NO_NEXT_STEP == "Nao ha proximo passo definido no fluxo de aprovacao."
ERROR_STEP_NOT_FOUND == "Passo de aprovacao nao encontrado."

\* ApprovalFlow.objects.create(supplier=, step=, approver=, observations=)
create_flow(id, s, step, approver, observations) ==
    [id |-> id, supplier |-> s, step |-> step, approver |-> approver,
     observations |-> observations, approved_at |-> NoneVal,
     reproved_at |-> NoneVal]

\* ApprovalFlow.approve(): the approval timestamp is set, the rejection
\* timestamp cleared
approve(flow) == [flow EXCEPT !.approved_at = "now", !.reproved_at = NoneVal]

\* ApprovalFlow.reprove(): the rejection timestamp is set, the approval
\* timestamp cleared
reprove(flow) == [flow EXCEPT !.reproved_at = "now", !.approved_at = NoneVal]

\* the answer of a serializer: the exception raised ("" when none) with its
\* message, the row created or decided on (the requested workflow when none
\* was), and the request's step, approver and observations
FlowResponse(op, error, detail, s, flow, step, approver, observations) ==
    [op |-> op, error |-> error, detail |-> detail, supplier |-> s,
     flow |-> flow, step |-> step, approver |-> approver,
     observations |-> observations]

\* StartApprovalFlowSerializer: validate, then create, which runs
\* ApprovalWorkflowService.initialize_approval_flow
StartFlow(s, email, name) ==
    /\ UNCHANGED <<situation_vars, last, approval_steps, step_approvals,
                   requests>>
    /\ IF s \notin DOMAIN suppliers
       THEN /\ response' = FlowResponse("start", ValidationError,
                                ERROR_SUPPLIER_NOT_FOUND, s, 0, NoneVal,
                                email, "")
            /\ UNCHANGED <<approval_flows, approvers, next_id>>
       ELSE /\ approvers' = approver_get_or_create(approvers, email, name)
            /\ IF flow_exists(approval_flows, s)
               THEN /\ response' = FlowResponse("start", ValueError,
                                        ERROR_FLOW_ALREADY_EXISTS, s, 0,
                                        NoneVal, email, "")
                    /\ UNCHANGED <<approval_flows, next_id>>
               ELSE IF first_steps(approval_steps) = {}
               THEN /\ response' = FlowResponse("start", ValueError,
                                        ERROR_NO_STEP_DEFINED, s, 0,
                                        NoneVal, email, "")
                    /\ UNCHANGED <<approval_flows, next_id>>
               ELSE \E first_step \in first_steps(approval_steps) :
                    /\ next_id <= MaxFlows
                    /\ approval_flows' = save_flow(approval_flows,
                            approve(create_flow(next_id, s, first_step,
                                                email, "")))
                    /\ next_id' = next_id + 1
                    /\ response' = FlowResponse("start", "", "", s, next_id,
                                                first_step, email, "")

\* SetResponsibleApproverSerializer: validate, then create
SetResponsible(workflow_id, step_id, email, name, observations) ==
    /\ UNCHANGED <<situation_vars, last, approval_steps, step_approvals,
                   requests>>
    /\ IF step_id \notin DOMAIN approval_steps
       THEN /\ response' = FlowResponse("assign", ValidationError,
                                ERROR_STEP_NOT_FOUND, NoneVal, workflow_id,
                                step_id, email, observations)
            /\ UNCHANGED <<approval_flows, approvers, next_id>>
       ELSE IF next_steps(approval_steps, step_id) = {}
       THEN /\ response' = FlowResponse("assign", ValidationError,
                                ERROR_NO_NEXT_STEP, NoneVal, workflow_id,
                                step_id, email, observations)
            /\ UNCHANGED <<approval_flows, approvers, next_id>>
       ELSE IF ~ \E f \in approval_flows :
                    f.id = workflow_id /\ f.step = step_id
       THEN /\ response' = FlowResponse("assign", ValidationError,
                                ERROR_FLOW_NOT_FOUND, NoneVal, workflow_id,
                                step_id, email, observations)
            /\ UNCHANGED <<approval_flows, approvers, next_id>>
       ELSE \E next_step \in next_steps(approval_steps, step_id) :
            LET workflow == CHOOSE f \in approval_flows : f.id = workflow_id
            IN  /\ next_id <= MaxFlows
                /\ approvers' = approver_get_or_create(approvers, email, name)
                /\ approval_flows' = save_flow(approval_flows,
                        create_flow(next_id, workflow.supplier, next_step,
                                    email, observations))
                /\ next_id' = next_id + 1
                /\ response' = FlowResponse("assign", "", "",
                                    workflow.supplier, next_id, step_id,
                                    email, observations)

\* ApproveApprovalFlowStepSerializer: validate, then create
DecideFlow(workflow_id, is_approved) ==
    /\ UNCHANGED <<situation_vars, last, approval_steps, step_approvals,
                   approvers, next_id, requests>>
    /\ IF ~ \E f \in approval_flows : f.id = workflow_id
       THEN /\ response' = FlowResponse("decide", ValidationError,
                                ERROR_FLOW_NOT_FOUND, NoneVal, workflow_id,
                                NoneVal, NoneVal, "")
            /\ UNCHANGED approval_flows
       ELSE LET workflow == CHOOSE f \in approval_flows : f.id = workflow_id
            IN  /\ approval_flows' = save_flow(approval_flows,
                        IF is_approved THEN approve(workflow)
                        ELSE reprove(workflow))
                /\ response' = FlowResponse("decide", "", "",
                                    workflow.supplier, workflow_id,
                                    workflow.step, workflow.approver,
                                    workflow.observations)

InitAppendFlow == InitWorkflow

NextAppendFlow ==
    \/ \E s \in EditedSuppliers \cup {UnknownSupplier},
          who \in ApproverInputs : StartFlow(s, who[1], who[2])
    \/ \E workflow_id \in 1..MaxFlows, step_id \in StepIds,
          who \in ApproverInputs, observations \in ObservationInputs :
            SetResponsible(workflow_id, step_id, who[1], who[2], observations)
    \/ \E workflow_id \in 1..MaxFlows, is_approved \in BOOLEAN :
            DecideFlow(workflow_id, is_approved)

SpecAppendFlow == InitAppendFlow /\ [][NextAppendFlow]_vars

(***************************************************************************)
(* NotificationDispatcher: SendRequestToApprovalWorkflowService.execute    *)
(* and Email365Client.send_message, run by the request that put a flow     *)
(* row on a step, after the row was written.                               *)
(***************************************************************************)
SMTPAuthenticationError == "SMTPAuthenticationError"
SMTPRecipientsRefused == "SMTPRecipientsRefused"
SMTPConnectError == "SMTPConnectError"

\* what the mail server does with one message: it accepts it, refuses the
\* login or the recipient, or cannot be connected to
MailOutcomes ==
    {"sent", SMTPAuthenticationError, SMTPRecipientsRefused, SMTPConnectError}

\* Email365Client.send_message: the exception it lets through ("" when
\* none) and the flag it returns
send_message(outcome) ==
    IF outcome = "sent" THEN [raised |-> "", sent |-> TRUE]
    ELSE IF outcome = SMTPAuthenticationError
    THEN [raised |-> "", sent |-> FALSE]
    ELSE IF outcome = SMTPRecipientsRefused
    THEN [raised |-> "", sent |-> FALSE]
    ELSE [raised |-> outcome, sent |-> FALSE]

\* SendRequestToApprovalWorkflowService.execute: the exception it lets
\* through ("" when it returns)
execute(approval_flow, outcome) ==
    IF approval_flow.approver = NoneVal THEN ""
    ELSE send_message(outcome).raised

\* the notification step of a start or assign request whose row was written
Dispatch(outcome) ==
    /\ response.op \in {"start", "assign"}
    /\ response.error = ""
    /\ LET approval_flow ==
               CHOOSE f \in approval_flows : f.id = response.flow
       IN  response' = FlowResponse("notify",
                           execute(approval_flow, outcome), "",
                           approval_flow.supplier, approval_flow.id,
                           approval_flow.step, approval_flow.approver,
                           approval_flow.observations)
    /\ UNCHANGED <<situation_vars, last, approval_steps, approval_flows,
                   step_approvals, approvers, next_id, requests>>

InitNotify == InitWorkflow

NextNotify ==
    \/ \E s \in EditedSuppliers \cup {UnknownSupplier},
          who \in ApproverInputs : StartFlow(s, who[1], who[2])
    \/ \E workflow_id \in 1..MaxFlows, step_id \in StepIds,
          who \in ApproverInputs, observations \in ObservationInputs :
            SetResponsible(workflow_id, step_id, who[1], who[2], observations)
    \/ \E outcome \in MailOutcomes : Dispatch(outcome)

SpecNotify == InitNotify /\ [][NextNotify]_vars

(***************************************************************************)
(* Concurrent registrations of an approver: every request runs             *)
(* Approver.objects.get_or_create(email=, defaults={"name": }), which is a *)
(* SELECT by email followed, when no row was found, by an INSERT.  The     *)
(* approver table has a surrogate key and no constraint on email.          *)
(***************************************************************************)
RegisterRequestIds == {"g1", "g2", "g3"}
RegisterInputs == {<<"a@x", "A">>, <<"a@x", "B">>, <<"b@x", "B">>}
MultipleObjectsReturned == "MultipleObjectsReturned"

RegisterArrived(who) ==
    [pc |-> "get", email |-> who[1], name |-> who[2], approver |-> 0,
     raised |-> ""]

\* Approver.objects.get(email=): the rows the SELECT returns
approver_get(tbl, email) == {a \in tbl : a.email = email}

\* the SELECT of get_or_create: a single row is returned as the approver,
\* several rows raise MultipleObjectsReturned, no row leads to the INSERT
RegisterGet(q) ==
    /\ requests[q].pc = "get"
    /\ LET found == approver_get(approvers, requests[q].email)
       IN  IF found = {}
           THEN requests' = [requests EXCEPT ![q].pc = "create"]
           ELSE IF Cardinality(found) = 1
           THEN \E a \in found :
                    requests' = [requests EXCEPT ![q].pc = "done",
                                                 ![q].approver = a.id]
           ELSE requests' = [requests EXCEPT
                                ![q].pc = "done",
                                ![q].raised = MultipleObjectsReturned]
    /\ UNCHANGED <<situation_vars, last, approval_steps, approval_flows,
                   step_approvals, approvers, next_id, response>>

\* the INSERT of get_or_create
RegisterCreate(q) ==
    /\ requests[q].pc = "create"
    /\ approvers' = approvers \cup
            {[id |-> next_id, email |-> requests[q].email,
              name |-> requests[q].name]}
    /\ next_id' = next_id + 1
    /\ requests' = [requests EXCEPT ![q].pc = "done",
                                    ![q].approver = next_id]
    /\ UNCHANGED <<situation_vars, last, approval_steps, approval_flows,
                   step_approvals, response>>

InitApproverRace ==
    /\ RegisteredSuppliers
    /\ approval_steps = <<>>
    /\ approval_flows = {}
    /\ step_approvals = {}
    /\ approvers = {}
    /\ next_id = 1
    /\ requests \in [RegisterRequestIds ->
                        {RegisterArrived(who) : who \in RegisterInputs}]
    /\ response = NoResponse

NextApproverRace ==
    \/ \E q \in RegisterRequestIds : RegisterGet(q)
    \/ \E q \in RegisterRequestIds : RegisterCreate(q)

SpecApproverRace == InitApproverRace /\ [][NextApproverRace]_vars

(***************************************************************************)
(* Attachments: AttachmentService.create_attachment and the attachment     *)
(* views.  A supplier_attachment row is its supplier, its attachment type  *)
(* and its file.                                                           *)
(***************************************************************************)
Files == {"f1", "f2"}
\* a file of more than 10MB, refused by validate_file
TooLarge == "big"
HTTP_204_NO_CONTENT == 204

attachment_row(s, t, file) ==
    [supplier |-> s, attachment_type |-> t, file |-> file]

\* SupplierAttachment.objects.filter(supplier_id=, attachment_type_id=)
existing_attachments(tbl, s, t) ==
    {a \in tbl : a.supplier = s /\ a.attachment_type = t}

delete_existing_skipped(tbl, s, t) == tbl

\* create_attachment: the first row of the pair, when there is one, is
\* deleted
delete_existing(tbl, s, t) ==
    IF existing_attachments(tbl, s, t) = {} THEN tbl
    ELSE tbl \ {CHOOSE a \in existing_attachments(tbl, s, t) : TRUE}

\* unique_together (supplier, attachment_type), for a row other than the
\* given instance
unique_together_violated(tbl, instance, s, t) ==
    existing_attachments(tbl, s, t) \ instance # {}

\* SupplierAttachmentInSerializer.is_valid
attachment_is_valid(tbl, instance, s, t, file) ==
    /\ s \in DOMAIN suppliers
    /\ t \in AttachmentTypes
    /\ file # TooLarge
    /\ ~unique_together_violated(tbl, instance, s, t)

\* the request served last, whether its fields pass the field validators,
\* and whether its (supplier, type) pair had a row with another file when it
\* arrived
Uploaded(kind, s, t, file) ==
    [kind |-> kind, supplier |-> s, attachment_type |-> t, file |-> file,
     fields_valid |-> s \in DOMAIN suppliers /\ t \in AttachmentTypes
                        /\ file # TooLarge,
     replaces |-> \E a \in attachments :
                     /\ a.supplier = s /\ a.attachment_type = t
                     /\ a.file # file]

AttachmentResponse(op, status) ==
    [op |-> op, status |-> status]

\* serializer.save(): the row is written, then the post_save receiver runs
StoreAttachment(tbl, s) ==
    /\ attachments' = tbl
    /\ situations' = [situations EXCEPT ![s] =
            verify_supplier_attachment_pendency(suppliers, tbl,
                responsibility_matrix, situations[s], s)]

\* AttachmentService.create_attachment, in one transaction
CreateAttachment(s, t, file) ==
    /\ last' = Uploaded("create_attachment", s, t, file)
    /\ LET kept == delete_existing(attachments, s, t)
       IN  IF attachment_is_valid(kept, {}, s, t, file)
           THEN /\ StoreAttachment(kept \cup {attachment_row(s, t, file)}, s)
                /\ response' = AttachmentResponse("create_attachment",
                                                  HTTP_201_CREATED)
           ELSE /\ response' = AttachmentResponse("create_attachment",
                                                  HTTP_400_BAD_REQUEST)
                /\ UNCHANGED <<attachments, situations>>
    /\ UNCHANGED <<suppliers, responsibility_matrix, approval_steps,
                   approval_flows, step_approvals, approvers, next_id,
                   requests>>

\* SupplierAttachmentUploadView.post
UploadAttachment(s, t, file) ==
    /\ last' = Uploaded("upload", s, t, file)
    /\ IF attachment_is_valid(attachments, {}, s, t, file)
       THEN /\ StoreAttachment(attachments \cup {attachment_row(s, t, file)},
                               s)
            /\ response' = AttachmentResponse("upload", HTTP_201_CREATED)
       ELSE /\ response' = AttachmentResponse("upload", HTTP_400_BAD_REQUEST)
            /\ UNCHANGED <<attachments, situations>>
    /\ UNCHANGED <<suppliers, responsibility_matrix, approval_steps,
                   approval_flows, step_approvals, approvers, next_id,
                   requests>>

\* SupplierAttachmentView.put on an existing row
PutAttachment(attachment, t, file) ==
    /\ attachment \in attachments
    /\ last' = Uploaded("put", attachment.supplier, t, file)
    /\ IF attachment_is_valid(attachments, {attachment}, attachment.supplier,
                              t, file)
       THEN /\ StoreAttachment((attachments \ {attachment}) \cup
                    {attachment_row(attachment.supplier, t, file)},
                    attachment.supplier)
            /\ response' = AttachmentResponse("put", HTTP_200_OK)
       ELSE /\ response' = AttachmentResponse("put", HTTP_400_BAD_REQUEST)
            /\ UNCHANGED <<attachments, situations>>
    /\ UNCHANGED <<suppliers, responsibility_matrix, approval_steps,
                   approval_flows, step_approvals, approvers, next_id,
                   requests>>

\* SupplierAttachmentView.delete on an existing row: no receiver runs
RemoveAttachment(attachment) ==
    /\ attachment \in attachments
    /\ attachments' = attachments \ {attachment}
    /\ last' = Uploaded("delete", attachment.supplier,
                        attachment.attachment_type, attachment.file)
    /\ response' = AttachmentResponse("delete", HTTP_204_NO_CONTENT)
    /\ UNCHANGED <<suppliers, responsibility_matrix, situations,
                   approval_steps, approval_flows, step_approvals, approvers,
                   next_id, requests>>

InitAttachment == RegisteredSuppliers /\ WorkflowIdle

NextAttachment ==
    \/ \E s \in SupplierIds \cup {UnknownSupplier}, t \in AttachmentTypes,
          file \in Files \cup {TooLarge} : CreateAttachment(s, t, file)
    \/ \E s \in SupplierIds \cup {UnknownSupplier}, t \in AttachmentTypes,
          file \in Files \cup {TooLarge} : UploadAttachment(s, t, file)
    \/ \E attachment \in attachments, t \in AttachmentTypes,
          file \in Files \cup {TooLarge} : PutAttachment(attachment, t, file)
    \/ \E attachment \in attachments : RemoveAttachment(attachment)

SpecAttachment == InitAttachment /\ [][NextAttachment]_vars

(***************************************************************************)
(* CompletenessValidator applied to stored records: a Supplier with its    *)
(* FiscalDetails, Contract and DomRiskLevel, every field holding a value   *)
(* its column can store.                                                   *)
(***************************************************************************)
AutoField == Field("auto", NoneVal, "1")

\* DomType: id, name (CharField, no default)
DomObjects ==
    {<<AutoField, Field("CharField", NoneVal, name)>> : name \in {"", "N"}}

Related(objects) == {Unset} \cup {Ref(o) : o \in objects}

\* Contract: id, object_contract (CharField, default ""),
\* executed_activities (TextField, default ""), contract_start_date
\* (DateField, null), has_contract_renewal (BooleanField, default False)
ContractObjects ==
    {<<AutoField,
       Field("CharField", "", object_contract),
       Field("TextField", "", executed_activities),
       Field("other", NoneVal, contract_start_date),
       Field("other", "False", has_contract_renewal)>> :
        object_contract \in {"", "O"},
        executed_activities \in {"", "E"},
        contract_start_date \in {NoneVal, "2025-01-01"},
        has_contract_renewal \in {"False", "True"}}

\* FiscalDetails: iss_regime (ForeignKey, null), cooperative_member
\* (BooleanField, default False)
FiscalObjects ==
    {<<Field("relation", NoneVal, iss_regime),
       Field("other", "False", cooperative_member)>> :
        iss_regime \in Related(DomObjects),
        cooperative_member \in {"False", "True"}}

\* Supplier: id, trade_name (CharField, default ""), fiscal_details and
\* contract (OneToOneField, null), risk_level (ForeignKey, null)
SupplierObjects ==
    {<<AutoField,
       Field("CharField", "", trade_name),
       Field("relation", NoneVal, fiscal_details),
       Field("relation", NoneVal, contract),
       Field("relation", NoneVal, risk_level)>> :
        trade_name \in {"", "T"},
        fiscal_details \in Related(FiscalObjects),
        contract \in Related(ContractObjects),
        risk_level \in Related(DomObjects)}

\* validate_object_complete(obj) is called on the record held in requests
ValidateObject ==
    /\ response = NoResponse
    /\ response' = [op |-> "validate",
                    result |-> validate_object_complete(requests),
                    read |-> validate_fields(requests, 1).read]
    /\ UNCHANGED <<situation_vars, last, approval_steps, approval_flows,
                   step_approvals, approvers, next_id, requests>>

InitComplete ==
    /\ RegisteredSuppliers
    /\ approval_steps = <<>>
    /\ approval_flows = {}
    /\ step_approvals = {}
    /\ approvers = {}
    /\ next_id = 1
    /\ requests \in SupplierObjects
    /\ response = NoResponse

NextComplete == ValidateObject

SpecComplete == InitComplete /\ [][NextComplete]_vars

(***************************************************************************)
(* SupplierView.post: the supplier is created and its approval flow        *)
(* started inside one transaction.atomic() block.                          *)
(***************************************************************************)
HTTP_403_FORBIDDEN == 403
\* the authenticated user (email, full name): with or without a full name,
\* or without an email
UserInputs == {<<"a@x", "A">>, <<"a@x", "">>, <<"", "A">>}

no_transaction(before, written, raised) == written

\* with transaction.atomic(): the writes of the block are kept when it is
\* left normally and undone when an exception leaves it
transaction_atomic(before, written, raised) ==
    IF raised = "" THEN written ELSE before

\* the approver of the view: get_or_create by email, the name defaulting to
\* the full name or else the email, and an empty stored name filled in
initial_approver(tbl, email, full_name) ==
    LET name == IF full_name # "" THEN full_name ELSE email
        got == approver_get_or_create(tbl, email, name)
    IN  {IF a.email = email /\ a.name = "" THEN [a EXCEPT !.name = name]
         ELSE a : a \in got}

\* ApprovalWorkflowService.initialize_approval_flow: the exception it raises
\* ("" when none) and the flow table it leaves
initialize_approval_flow(flows, steps, id, s, approver) ==
    IF flow_exists(flows, s)
    THEN {[raised |-> ValueError, detail |-> ERROR_FLOW_ALREADY_EXISTS,
           flows |-> flows]}
    ELSE IF first_steps(steps) = {}
    THEN {[raised |-> ValueError, detail |-> ERROR_NO_STEP_DEFINED,
           flows |-> flows]}
    ELSE {[raised |-> "", detail |-> "",
           flows |-> save_flow(flows,
                        approve(create_flow(id, s, first_step, approver, "")))] :
            first_step \in first_steps(steps)}

\* the tables as the request leaves them
Commit(tables) ==
    /\ suppliers' = tables[1]
    /\ situations' = tables[2]
    /\ approvers' = tables[3]
    /\ approval_flows' = tables[4]
    /\ next_id' = tables[5]

PostSupplier(s, row, valid, email, full_name) ==
    /\ s \notin DOMAIN suppliers
    /\ UNCHANGED <<attachments, responsibility_matrix, approval_steps,
                   step_approvals, requests, last>>
    /\ IF email = ""
       THEN /\ response' = FlowResponse("post_supplier", "",
                                HTTP_403_FORBIDDEN, s, 0, NoneVal, email, "")
            /\ UNCHANGED <<suppliers, situations, approvers, approval_flows,
                           next_id>>
       ELSE
        LET before == <<suppliers, situations, approvers, approval_flows,
                        next_id>>
            sup == Insert(suppliers, s, row)
            hist == verify_supplier_pendency(sup, attachments,
                        responsibility_matrix, situations[s], s)
            saved == <<sup, [situations EXCEPT ![s] = hist], approvers,
                       approval_flows, next_id>>
            registered == <<saved[1], saved[2],
                            initial_approver(approvers, email, full_name),
                            approval_flows, next_id>>
        IN  IF ~valid
            THEN /\ Commit(transaction_atomic(before, before,
                                               ValidationError))
                 /\ response' = FlowResponse("post_supplier",
                                    ValidationError, HTTP_400_BAD_REQUEST,
                                    s, 0, NoneVal, email, "")
            ELSE \E started \in initialize_approval_flow(approval_flows,
                                    approval_steps, next_id, s, email) :
                 /\ Commit(transaction_atomic(before,
                            <<registered[1], registered[2], registered[3],
                              started.flows,
                              IF started.raised = "" THEN next_id + 1
                              ELSE next_id>>,
                            started.raised))
                 /\ response' = FlowResponse("post_supplier",
                                    started.raised,
                                    IF started.raised = ""
                                    THEN HTTP_201_CREATED
                                    ELSE HTTP_500_INTERNAL_SERVER_ERROR,
                                    s, IF started.raised = "" THEN next_id
                                       ELSE 0,
                                    NoneVal, email, "")

InitSupplierPost ==
    /\ suppliers = <<>>
    /\ attachments = {}
    /\ responsibility_matrix = <<>>
    /\ situations = [s \in SupplierIds |-> <<>>]
    /\ last = NothingServed
    /\ approval_steps \in StepCatalogues
    /\ approval_flows = {}
    /\ step_approvals = {}
    /\ approvers = {}
    /\ next_id = 1
    /\ requests = <<>>
    /\ response = NoResponse

NextSupplierPost ==
    \E s \in SupplierIds, valid \in BOOLEAN, who \in UserInputs :
        \E row \in RowsFor(s) : PostSupplier(s, row, valid, who[1], who[2])

SpecSupplierPost == InitSupplierPost /\ [][NextSupplierPost]_vars

(***************************************************************************)
(* Properties of the responsibility matrix validator                       *)
(***************************************************************************)
\* the request served last got as far as validate(attrs)
Validated ==
    /\ last.kind = "matrix"
    /\ response.rule \notin {"unique", RelatedObjectDoesNotExist}

\* C16: a submitted matrix in which some activity has two or more of its six
\* role columns set to A or A/R (any two of the six) is refused with the
\* single-accountable failure naming that activity, and nothing is stored.
C16_DoubleAccountableRefused ==
    [][(Validated' /\ last'.double_accountable # {}) =>
        /\ response'.status = HTTP_400_BAD_REQUEST
        /\ response'.rule = "single_accountable"
        /\ response'.activity \in last'.double_accountable
        /\ responsibility_matrix' = responsibility_matrix]_vars

\* C17: a submitted matrix in which some activity has '-' in all six role
\* columns is refused with the at-least-one-involvement failure naming that
\* activity (by a name that begins with the activity's); a submitted matrix in which every activity has a column other
\* than '-' and at most one accountable is accepted.
C17_InvolvementRule ==
    (Validated /\ last.full) =>
        /\ last.uninvolved # {} =>
            /\ response.status = HTTP_400_BAD_REQUEST
            /\ response.rule = "minimum_involvement"
            /\ \E a \in last.uninvolved : startswith(response.activity, a)
        /\ (last.uninvolved = {} /\ last.double_accountable = {}) =>
            response.status \in {HTTP_200_OK, HTTP_201_CREATED}

\* C18: after any sequence of accepted create, full-update and
\* partial-update requests every activity of the stored matrix has at most
\* one accountable (A or A/R) across its six role columns.
C18_StoredSingleAccountable ==
    \A s \in DOMAIN responsibility_matrix : \A a \in RuledActivities :
        Accountables(ActivityValues(responsibility_matrix[s], a)) <= 1

CompletedFlows == {f \in approval_flows : f.completion_date # NoneVal}

\* advance_to_next_step on a completed flow saves nothing (it returns False)
C27_AdvanceRefused ==
    \A f \in CompletedFlows : advance_to_next_step(f, approval_steps) = {f}

\* a completed flow row is never written again, and a decide request on it
\* is refused with a business error without recording a decision
C27_CompletedStays ==
    /\ \A f \in CompletedFlows : f \in approval_flows'
    /\ (response'.op = "decide" /\
        \E f \in CompletedFlows : f.id = response'.flow)
       => /\ response'.status = HTTP_400_BAD_REQUEST
          /\ step_approvals' = step_approvals

RequiredTypes(s) ==
    {t \in AttachmentTypes : TypeRisk[t] = suppliers[s].risk_level}

\* C28: for a supplier with attachments, is_completed_files holds exactly
\* when the supplier has at least as many attachments as there are
\* attachment types defined for its risk level, whatever other suppliers
\* uploaded.
C28_FilesCompleteByTypeCount ==
    \A s \in DOMAIN suppliers :
        (\E a \in attachments : a.supplier = s) =>
            (is_completed_files(suppliers, attachments, s) <=>
                Cardinality({a \in attachments : a.supplier = s}) >=
                    Cardinality(RequiredTypes(s)))

\* C29: a supplier's history never holds the same situation status twice,
\* so it has at most as many rows as there are statuses.
C29_OneRowPerStatus ==
    \A s \in DOMAIN situations :
        /\ \A i, j \in DOMAIN situations[s] :
               situations[s][i] = situations[s][j] => i = j
        /\ Len(situations[s]) <= Cardinality(DomSupplierSituation)

\* the handler of a complete supplier that had held three statuses met the
\* ATIVO row of an earlier activation and inserted nothing
C29_Witness ==
    /\ last.kind = "supplier"
    /\ last.supplier \in DOMAIN suppliers
    /\ last.appended = 0
    /\ Len(situations[last.supplier]) = 3
    /\ situations[last.supplier][2] = ATIVO
    /\ is_completed_registration(suppliers, attachments,
                                 responsibility_matrix, last.supplier)

(***************************************************************************)
(* Properties of the append-only approval workflow                         *)
(***************************************************************************)
Started == response.op = "start" /\ response.error = ""

\* C19: right after initialize_approval_flow succeeded, the new flow row is
\* on a lowest-order step, has the given approver and empty observations,
\* and carries neither an approval nor a rejection.
C19_StartedFlowIsUndecided ==
    Started =>
        \E f \in approval_flows :
            /\ f.id = response.flow
            /\ f.supplier = response.supplier
            /\ f.step \in DOMAIN approval_steps
            /\ \A st \in DOMAIN approval_steps :
                   approval_steps[f.step] <= approval_steps[st]
            /\ f.approver = response.approver
            /\ f.observations = ""
            /\ f.approved_at = NoneVal
            /\ f.reproved_at = NoneVal

IsTerminalStep(step_id) ==
    /\ step_id \in DOMAIN approval_steps
    /\ \A st \in DOMAIN approval_steps :
           approval_steps[st] <= approval_steps[step_id]

\* C20: assigning a responsible approver for a step that no step follows in
\* order is refused with a validation error, and no approval flow row (nor
\* approver) is created.
C20_TerminalAssignRefused ==
    [][(response'.op = "assign" /\ IsTerminalStep(response'.step)) =>
          /\ response'.error = ValidationError
          /\ response'.detail = ERROR_NO_NEXT_STEP
          /\ approval_flows' = approval_flows
          /\ approvers' = approvers
          /\ next_id' = next_id]_vars

\* a flow row that was assigned to the terminal step of a catalogue with
\* several steps, and for which a further assignment was refused
C20_Witness ==
    /\ response.op = "assign"
    /\ response.detail = ERROR_NO_NEXT_STEP
    /\ Cardinality(DOMAIN approval_steps) >= 2
    /\ \E f \in approval_flows :
          /\ f.id = response.flow
          /\ f.step = response.step
          /\ f.observations = "obs"

\* the rows of a supplier that carry neither an approval nor a rejection
OpenFlows(s) ==
    {f \in approval_flows :
        f.supplier = s /\ f.approved_at = NoneVal /\ f.reproved_at = NoneVal}

\* C21: whatever start, assign and decide requests were served, a supplier
\* has at most one flow row that is neither approved nor rejected.
C21_OneOpenFlowPerSupplier ==
    \A s \in DOMAIN suppliers : Cardinality(OpenFlows(s)) <= 1

\* C22: a notification that could not be sent, whatever the reason, raises
\* nothing to the request that dispatched it, and the flow row that request
\* wrote is kept.
C22_MailFailureSwallowed ==
    response.op = "notify" =>
        /\ response.error = ""
        /\ \E f \in approval_flows : f.id = response.flow

\* C23: however the requests that register an approver interleave, no two
\* rows of the approver table have the same email.
C23_OneApproverPerEmail ==
    \A a, b \in approvers : a.email = b.email => a = b

(***************************************************************************)
(* Properties of the attachments                                           *)
(***************************************************************************)
SamePair(a, b) ==
    a.supplier = b.supplier /\ a.attachment_type = b.attachment_type

C25_OnePerPair == \A a, b \in attachments : SamePair(a, b) => a = b

C25_CreateReplaces ==
    (last'.kind = "create_attachment" /\ last'.fields_valid) =>
        /\ {a \in attachments' : SamePair(a, last')} =
               {attachment_row(last'.supplier, last'.attachment_type,
                               last'.file)}
        /\ {a \in attachments' : ~SamePair(a, last')} =
               {a \in attachments : ~SamePair(a, last')}

\* C25: a supplier never has two attachments of one type, and
\* create_attachment with valid fields leaves, for its (supplier, type)
\* pair, exactly the new row, and the rows of the other pairs as they were.
C25_OneAttachmentPerType ==
    []C25_OnePerPair /\ [][C25_CreateReplaces]_vars

\* create_attachment replaced the file of a pair while another pair of the
\* same supplier had a row
C25_Witness ==
    /\ last.kind = "create_attachment"
    /\ last.replaces
    /\ response.status = HTTP_201_CREATED
    /\ \E a \in attachments :
          a.supplier = last.supplier /\ a.attachment_type # last.attachment_type

(***************************************************************************)
(* Properties of the completeness validator                                *)
(***************************************************************************)
TextKinds == {"CharField", "TextField"}

\* the statement: every relationship is set and its record complete, every
\* text field differs from its default, every other scalar is neither null
\* nor its default (auto-generated fields are not looked at)
RECURSIVE Complete(_)
Complete(obj) ==
    \A i \in DOMAIN obj :
        IF obj[i].kind = "auto" THEN TRUE
        ELSE IF obj[i].kind = "relation"
        THEN obj[i].value # Unset /\ Complete(obj[i].value[1])
        ELSE IF obj[i].kind \in TextKinds
        THEN obj[i].value # obj[i].default
        ELSE obj[i].value # NoneVal /\ obj[i].value # obj[i].default

\* number of fields of a record and of the records it refers to
RECURSIVE Size(_)
Size(obj) ==
    IF obj = <<>> THEN 0
    ELSE Size(SubSeq(obj, 1, Len(obj) - 1)) + 1 +
         (IF obj[Len(obj)].kind = "relation" /\ obj[Len(obj)].value # Unset
          THEN Size(obj[Len(obj)].value[1]) ELSE 0)

C26_Verdict ==
    response.op = "validate" =>
        /\ response.result = Complete(requests)
        /\ \A i \in DOMAIN requests :
              (/\ requests[i].kind = "relation"
               /\ requests[i].value = Unset
               /\ Complete(SubSeq(requests, 1, i - 1)))
              => response.read = Size(SubSeq(requests, 1, i - 1)) + 1

C26_NoWrite ==
    /\ requests' = requests
    /\ suppliers' = suppliers
    /\ attachments' = attachments
    /\ responsibility_matrix' = responsibility_matrix
    /\ situations' = situations

\* C26: validate_object_complete answers true exactly for the records that
\* are complete in the sense above, stops at the first unset relationship,
\* and writes nothing.
C26_CompleteExactly == []C26_Verdict /\ [][C26_NoWrite]_vars

\* a record found complete through two levels of relationships
C26_Witness ==
    /\ response.op = "validate"
    /\ response.result
    /\ \E i \in DOMAIN requests :
          /\ requests[i].kind = "relation"
          /\ requests[i].value # Unset
          /\ \E j \in DOMAIN requests[i].value[1] :
                /\ requests[i].value[1][j].kind = "relation"
                /\ requests[i].value[1][j].value # Unset

(***************************************************************************)
(* Properties of the situation deriver                                     *)
(***************************************************************************)
IsPrefix(a, b) == Len(a) <= Len(b) /\ SubSeq(b, 1, Len(a)) = a

CurrentlyComplete(s) ==
    is_completed_registration(suppliers, attachments, responsibility_matrix, s)

\* C1: a supplier whose current situation is ATIVO has complete
\* registration (fields, attachment set and responsibility matrix).
C1_ActiveImpliesComplete ==
    \A s \in DOMAIN suppliers :
        situation_name(situations[s]) = "ATIVO" => CurrentlyComplete(s)

\* C2: after a Supplier save on which the registration is complete, the
\* current situation of that supplier is ATIVO, whatever the history was.
C2_CompleteSaveIsActive ==
    \A s \in DOMAIN suppliers :
        (last.kind = "supplier" /\ last.supplier = s /\ CurrentlyComplete(s))
            => situation_name(situations[s]) = "ATIVO"

\* C3: after a Supplier save on which the registration is incomplete, the
\* current situation of that supplier is PENDENTE with reason registration,
\* whatever the previous current situation was.
C3_IncompleteSaveIsPendingRegistration ==
    \A s \in DOMAIN suppliers :
        (last.kind = "supplier" /\ last.supplier = s /\ ~CurrentlyComplete(s))
            => situation(situations[s]) = <<PENDENTE(PENDENCIA_CADASTRO)>>

\* C15: after a ResponsibilityMatrix save on which the matrix is not
\* complete, the current situation of the supplier is PENDENTE with reason
\* responsibility matrix, whatever the previous current situation was.
C15_IncompleteMatrixSaveIsPendingMatrix ==
    \A s \in DOMAIN suppliers :
        (/\ last.kind = "matrix" /\ last.supplier = s
         /\ ~matrix_is_completed(responsibility_matrix[s]))
        => situation(situations[s]) =
              <<PENDENTE(PENDENCIA_MATRIZ_RESPONSABILIDADE)>>

\* C7: the deriver only appends: over every request a supplier that still
\* exists keeps every situation row it had, in the same order, and what is
\* added is added at the end (so the current situation is the row inserted
\* last).
C7_AppendOnly ==
    [][\A s \in DOMAIN suppliers \cap DOMAIN suppliers' :
          /\ IsPrefix(situations[s], situations'[s])
          /\ Len(situations'[s]) <= Len(situations[s]) + 1]_vars

\* a supplier went through three situations
C7_Witness ==
    \E s \in DOMAIN suppliers : Len(situations[s]) = 3

\* C8: a request that re-saves what the request before it just saved (same
\* supplier, matrix or attachment, no table changed in between) appends no
\* situation row.
C8_ResaveAppendsNothing == last.repeat => last.appended = 0

\* a matrix was saved twice in a row unchanged, for a supplier with history
C8_Witness ==
    /\ last.repeat
    /\ last.kind = "matrix"
    /\ Len(situations[last.supplier]) >= 2

(***************************************************************************)
(* Properties of the supplier creation                                     *)
(***************************************************************************)
PostedTables == <<suppliers, situations, approvers, approval_flows>>

\* a request that did not answer 201 leaves the four tables as they were
C30_NothingRemains ==
    response'.detail # HTTP_201_CREATED => PostedTables' = PostedTables

\* a request refused because the flow could not be started is not answered 201
C30_StartFailureFails ==
    (response'.error # ValidationError /\ response'.detail # HTTP_403_FORBIDDEN
        /\ first_steps(approval_steps) = {})
    => (response'.error = ValueError /\ response'.detail # HTTP_201_CREATED)

\* a request answered 201 leaves the supplier, its first situation row, the
\* approver and exactly one flow of the supplier, on a first step
C30_SupplierWithFlow ==
    response'.detail = HTTP_201_CREATED =>
        LET s == response'.supplier
        IN  /\ s \notin DOMAIN suppliers
            /\ s \in DOMAIN suppliers'
            /\ Len(situations'[s]) >= 1
            /\ \E a \in approvers' : a.email = response'.approver
            /\ Cardinality({f \in approval_flows' : f.supplier = s}) = 1
            /\ \A f \in approval_flows' :
                    f.supplier = s =>
                        /\ f.step \in first_steps(approval_steps)
                        /\ f.approver = response'.approver

====
